---- MODULE Spec2Model ----
(***************************************************************************)
(* Model of movie_recommendations.py: the rating store built by            *)
(* Movie_Recommendations.__init__, the memoised item similarity of         *)
(* Movie.get_similarity / Movie.compute_similarity, and the predictions of *)
(* predict_rating / predict_ratings.                                       *)
(*                                                                         *)
(* Numbers.  Ratings and similarities are Python floats.  They are         *)
(* modelled as exact rationals <<n, d>> (d > 0, lowest terms), so that     *)
(* abs, sum, division by the count, 1 - avg / 4.5 and the final quotient   *)
(* are computed the way the code computes them, without rounding.          *)
(*                                                                         *)
(* Dictionaries are functions whose DOMAIN is the key set.  Movie.users is *)
(* a Python list and is kept as a sequence (it may hold a user twice).     *)
(***************************************************************************)
EXTENDS Integers, Sequences, FiniteSets, TLC

\* ------------------------------------------------------------- bounds
\* Most rating records of the training file, per specification: Spec (every
\* single call, every id), SpecFormula (predictions of one target movie over
\* larger stores) and SpecBatch (predict_ratings).
MaxRecords == 2
MaxFormulaRecords == 5
MaxBatchRecords == 3
\* Most rows of the test-ratings file handed to predict_ratings.
MaxQueries == 2

\* ------------------------------------------------------------- inputs
\* Ids of the movies the movie file lists (the keys of movie_dict).
MovieIds == {1, 2, 3}
\* User ids that occur in rating records.
UserIds == {1, 2}
\* An id that is in neither file.
UnknownIds == {999}
\* Rating values of the records: 0.5 and 9.5 (the code accepts any float).
RatingValues == {<<1, 2>>, <<19, 2>>}
\* Actual ratings of the test rows.
ActualValues == {<<3, 1>>}

VARIABLES
    phase,          \* "loading" | "ready" | "failed": where the constructor is
    nrecords,       \* rating records read so far
    movie_users,    \* movie id -> Movie.users (a list)
    similarities,   \* movie id -> Movie.similarities (a dict)
    user_dict,      \* user id -> (movie id -> rating)
    last            \* the last call made on the loaded store and its outcome

vars == <<phase, nrecords, movie_users, similarities, user_dict, last>>

\* ------------------------------------------------------------ rationals
RECURSIVE GCD(_, _)
GCD(a, b) == IF b = 0 THEN a ELSE GCD(b, a % b)

IAbs(n) == IF n < 0 THEN -n ELSE n

\* n / d in lowest terms with a positive denominator (d # 0).
Norm(n, d) ==
    LET s == IF d < 0 THEN -1 ELSE 1
        g == GCD(IAbs(n), IAbs(d))
    IN <<(s * n) \div g, (s * d) \div g>>

RAdd(x, y) == Norm(x[1] * y[2] + y[1] * x[2], x[2] * y[2])
RSub(x, y) == Norm(x[1] * y[2] - y[1] * x[2], x[2] * y[2])
RMul(x, y) == Norm(x[1] * y[1], x[2] * y[2])
RDiv(x, y) == Norm(x[1] * y[2], x[2] * y[1])
RAbs(x) == <<IAbs(x[1]), x[2]>>
RInt(n) == <<n, 1>>
Zero == <<0, 1>>
One == <<1, 1>>
\* The value of a call that returned nothing or raised.
None == <<0, 0>>

RECURSIVE RSum(_)
RSum(s) == IF Len(s) = 0 THEN Zero ELSE RAdd(s[1], RSum(Tail(s)))

\* The scale width of the similarity formula, 4.5.
ScaleFactor == <<9, 2>>
\* The prediction returned when the similarities sum to zero, 2.5.
Fallback == <<5, 2>>

\* ------------------------------------------------------------ dictionaries
Put(d, k, v) == [x \in (DOMAIN d) \cup {k} |-> IF x = k THEN v ELSE d[x]]
EmptyDict == [x \in {} |-> None]

\* movie_dict: built from the movie file, one Movie per row.
movie_dict == [m \in MovieIds |-> [id |-> m, title |-> <<"title", m>>]]

InList(x, s) == \E i \in 1..Len(s) : s[i] = x

\* ------------------------------------------------------------ construction
Init ==
    /\ phase = "loading"
    /\ nrecords = 0
    /\ movie_users = [m \in MovieIds |-> <<>>]
    /\ similarities = [m \in MovieIds |-> EmptyDict]
    /\ user_dict = EmptyDict
    /\ last = [op |-> "none"]

\* user_dict after one record (user, movie, rating).
LoadUserDict(ud, user, movie, rating) ==
    IF user \in DOMAIN ud
    THEN Put(ud, user, Put(ud[user], movie, rating))
    ELSE Put(ud, user, Put(EmptyDict, movie, rating))

\* Variant of LoadUsers: a user already listed by some movie is not appended
\* again (a de-duplication keyed on the user alone).
LoadUsersOncePerUser(mu, user, movie) ==
    IF \E m \in DOMAIN mu : InList(user, mu[m])
    THEN mu
    ELSE [mu EXCEPT ![movie] = Append(@, user)]

\* Movie.users of every movie after one record (user, movie, rating).
LoadUsers(mu, user, movie) ==
    [mu EXCEPT ![movie] = Append(@, user)]

\* One pass of the loop over the training file, for a movie of the catalog.
LoadRating(limit, user, movie, rating) ==
    /\ phase = "loading"
    /\ nrecords < limit
    /\ movie \in DOMAIN movie_dict
    /\ nrecords' = nrecords + 1
    /\ movie_users' = LoadUsers(movie_users, user, movie)
    /\ user_dict' = LoadUserDict(user_dict, user, movie, rating)
    /\ UNCHANGED <<phase, similarities, last>>

\* A record naming a movie the catalog lacks: movie_dict[...] raises KeyError
\* and the constructor does not return.
LoadUnknownMovie(limit, user, movie) ==
    /\ phase = "loading"
    /\ nrecords < limit
    /\ movie \notin DOMAIN movie_dict
    /\ phase' = "failed"
    /\ UNCHANGED <<nrecords, movie_users, similarities, user_dict, last>>

\* The training file is exhausted: the constructor returns.
LoadDone ==
    /\ phase = "loading"
    /\ phase' = "ready"
    /\ UNCHANGED <<nrecords, movie_users, similarities, user_dict, last>>

\* ------------------------------------------------------------ similarity
\* Movie.compute_similarity(self, other_movie_id, movie_dict, user_dict).
compute_similarity(self, other) ==
    LET init_movie_users == movie_users[self]
        other_movie_users == movie_users[other]
        users_who_viewed_both ==
            SelectSeq(init_movie_users, LAMBDA u : InList(u, other_movie_users))
        n == Len(users_who_viewed_both)
        absolute_difference ==
            [i \in 1..n |->
                RAbs(RSub(user_dict[users_who_viewed_both[i]][self],
                          user_dict[users_who_viewed_both[i]][other]))]
        average_difference == RDiv(RSum(absolute_difference), RInt(n))
    IN IF n = 0 THEN Zero
       ELSE RSub(One, RDiv(average_difference, ScaleFactor))

\* Variant of get_similarity: the computed value is stored in the "self" movie
\* only, the mirror entry of the other movie is not written.
get_similarity_OneSided(sims, self, other) ==
    IF other \in DOMAIN movie_dict
    THEN IF other \in DOMAIN sims[self]
         THEN [sims |-> sims, status |-> "ok", value |-> sims[self][other],
               computed |-> 0]
         ELSE LET similarity == compute_similarity(self, other)
                  s1 == [sims EXCEPT ![self] = Put(@, other, similarity)]
              IN [sims |-> s1, status |-> "ok", value |-> similarity,
                  computed |-> 1]
    ELSE [sims |-> sims, status |-> "none", value |-> None, computed |-> 0]

\* Variant of get_similarity: the store rebinds each dictionary to a fresh one
\* holding the new entry alone (self.similarities = {other: similarity}).
get_similarity_Rebind(sims, self, other) ==
    IF other \in DOMAIN movie_dict
    THEN IF other \in DOMAIN sims[self]
         THEN [sims |-> sims, status |-> "ok", value |-> sims[self][other],
               computed |-> 0]
         ELSE LET similarity == compute_similarity(self, other)
                  s1 == [sims EXCEPT ![self] = Put(EmptyDict, other, similarity)]
                  s2 == [s1 EXCEPT ![other] = Put(EmptyDict, self, similarity)]
              IN [sims |-> s2, status |-> "ok", value |-> similarity,
                  computed |-> 1]
    ELSE [sims |-> sims, status |-> "none", value |-> None, computed |-> 0]

\* Movie.get_similarity on the caches sims: the caches after the call, how
\* the call ended ("ok": a value; "none": the BadInputError was caught inside
\* and nothing was returned) and whether compute_similarity ran.
get_similarity(sims, self, other) ==
    IF other \in DOMAIN movie_dict
    THEN IF other \in DOMAIN sims[self]
         THEN [sims |-> sims, status |-> "ok", value |-> sims[self][other],
               computed |-> 0]
         ELSE LET similarity == compute_similarity(self, other)
                  s1 == [sims EXCEPT ![self] = Put(@, other, similarity)]
                  s2 == [s1 EXCEPT ![other] = Put(@, self, similarity)]
              IN [sims |-> s2, status |-> "ok", value |-> similarity,
                  computed |-> 1]
    ELSE [sims |-> sims, status |-> "none", value |-> None, computed |-> 0]

\* A direct call movie_dict[self].get_similarity(other, ...).
GetSimilarity(self, other) ==
    /\ phase = "ready"
    /\ LET r == get_similarity(similarities, self, other)
       IN /\ similarities' = r.sims
          /\ last' = [op |-> "get_similarity", self |-> self, other |-> other,
                      status |-> r.status, value |-> r.value,
                      computed |-> r.computed]
    /\ UNCHANGED <<phase, nrecords, movie_users, user_dict>>


\* ------------------------------------------------------------ prediction
\* The least id of a non-empty set of ids.
MinOf(S) == CHOOSE x \in S : \A y \in S : x <= y

\* The accumulators of predict_rating before its loop.
StartAcc(sims) ==
    [sims |-> sims, status |-> "ok", sim_x_rate_total |-> Zero,
     sim_total |-> Zero, calls |-> 0, computed |-> 0]

\* Variant of rate_step: a similarity that is not positive is left out of both
\* totals.
rate_step_PositiveOnly(acc, rating, g) ==
    IF g.status # "ok"
    THEN [acc EXCEPT !.sims = g.sims, !.status = "TypeError", !.calls = @ + 1]
    ELSE IF g.value[1] > 0
    THEN [sims |-> g.sims, status |-> "ok",
          sim_x_rate_total |-> RAdd(acc.sim_x_rate_total, RMul(g.value, rating)),
          sim_total |-> RAdd(acc.sim_total, g.value),
          calls |-> acc.calls + 1,
          computed |-> acc.computed + g.computed]
    ELSE [acc EXCEPT !.sims = g.sims, !.calls = @ + 1,
                     !.computed = @ + g.computed]

\* One pass of the loop of predict_rating: the accumulators after the
\* similarity call g for a movie the user rated rating.  float(None) raises
\* TypeError when get_similarity returned nothing.
rate_step(acc, rating, g) ==
    IF g.status # "ok"
    THEN [acc EXCEPT !.sims = g.sims, !.status = "TypeError", !.calls = @ + 1]
    ELSE [sims |-> g.sims, status |-> "ok",
          sim_x_rate_total |-> RAdd(acc.sim_x_rate_total, RMul(g.value, rating)),
          sim_total |-> RAdd(acc.sim_total, g.value),
          calls |-> acc.calls + 1,
          computed |-> acc.computed + g.computed]

\* The loop of predict_rating over user_rated_movies (todo: the movies still to
\* visit).  The code visits them in the dict's insertion order; the totals are
\* sums and each pass writes the cache entries of its own pair only, so the
\* order is immaterial here and the movies are taken by ascending id.
RECURSIVE rate_loop(_, _, _, _)
rate_loop(acc, user_id, movie_id, todo) ==
    IF todo = {} \/ acc.status # "ok" THEN acc
    ELSE rate_loop(rate_step(acc, user_dict[user_id][MinOf(todo)],
                             get_similarity(acc.sims, MinOf(todo), movie_id)),
                   user_id, movie_id, todo \ {MinOf(todo)})

\* The outcome of predict_rating from the accumulators its loop left.
Outcome(acc) ==
    [sims |-> acc.sims, status |-> acc.status,
     value |-> IF acc.status # "ok" THEN None
               ELSE IF acc.sim_total = Zero THEN Fallback
               ELSE RDiv(acc.sim_x_rate_total, acc.sim_total),
     calls |-> acc.calls, computed |-> acc.computed]

\* The else branch of predict_rating: the user has not rated the movie.
predict_unrated(sims, user_id, movie_id) ==
    Outcome(rate_loop(StartAcc(sims), user_id, movie_id,
                      DOMAIN user_dict[user_id]))

\* A call that ended without touching a cache.
Ended(sims, status, value) ==
    [sims |-> sims, status |-> status, value |-> value, calls |-> 0,
     computed |-> 0]

\* Variant of predict_rating: no pass-through, a rated movie is predicted like
\* any other.
predict_rating_NoPassThrough(sims, user_id, movie_id) ==
    IF user_id \notin DOMAIN user_dict \/ movie_id \notin DOMAIN movie_dict
    THEN Ended(sims, "BadInputError", None)
    ELSE predict_unrated(sims, user_id, movie_id)

\* Variant of predict_rating: a user missing from user_dict is taken to have
\* rated nothing (self.user_dict.get(user_id, {})).
predict_rating_NoUserCheck(sims, user_id, movie_id) ==
    IF movie_id \notin DOMAIN movie_dict
    THEN Ended(sims, "BadInputError", None)
    ELSE IF user_id \notin DOMAIN user_dict
    THEN Ended(sims, "ok", Fallback)
    ELSE IF InList(user_id, movie_users[movie_id])
    THEN Ended(sims, "ok", user_dict[user_id][movie_id])
    ELSE predict_unrated(sims, user_id, movie_id)

\* Variant of predict_rating: the id check joins its two tests with "and", so
\* one bad id passes it and the first dictionary lookup raises KeyError.
predict_rating_AndCheck(sims, user_id, movie_id) ==
    IF user_id \notin DOMAIN user_dict /\ movie_id \notin DOMAIN movie_dict
    THEN Ended(sims, "BadInputError", None)
    ELSE IF user_id \notin DOMAIN user_dict \/ movie_id \notin DOMAIN movie_dict
    THEN Ended(sims, "KeyError", None)
    ELSE IF InList(user_id, movie_users[movie_id])
    THEN Ended(sims, "ok", user_dict[user_id][movie_id])
    ELSE predict_unrated(sims, user_id, movie_id)

\* Movie_Recommendations.predict_rating on the caches sims: the caches after
\* the call, how it ended, the value returned, and how many times it called
\* get_similarity and compute_similarity.
predict_rating(sims, user_id, movie_id) ==
    IF user_id \notin DOMAIN user_dict \/ movie_id \notin DOMAIN movie_dict
    THEN Ended(sims, "BadInputError", None)
    ELSE IF InList(user_id, movie_users[movie_id])
    THEN Ended(sims, "ok", user_dict[user_id][movie_id])
    ELSE predict_unrated(sims, user_id, movie_id)

\* A call predict_rating(user_id, movie_id) on the loaded store.
PredictRating(user_id, movie_id) ==
    /\ phase = "ready"
    /\ LET r == predict_rating(similarities, user_id, movie_id)
       IN /\ similarities' = r.sims
          /\ last' = [op |-> "predict_rating", user_id |-> user_id,
                      movie_id |-> movie_id, status |-> r.status,
                      value |-> r.value, calls |-> r.calls,
                      computed |-> r.computed]
    /\ UNCHANGED <<phase, nrecords, movie_users, user_dict>>

\* ------------------------------------------------------------ batch
\* One pass of the loop of predict_ratings over a row <<userId, movieId,
\* rating>> of the test file, p being the outcome of its predict_rating call:
\* the tuple (user id, title, prediction, actual rating) is appended.
batch_step(acc, line, p) ==
    IF p.status # "ok"
    THEN [acc EXCEPT !.sims = p.sims, !.status = p.status]
    ELSE [sims |-> p.sims, status |-> "ok",
          tuple_list |-> Append(acc.tuple_list,
                                <<line[1], movie_dict[line[2]].title, p.value,
                                  line[3]>>)]

\* The loop of predict_ratings.  A tuple's elements are evaluated left to
\* right: the title lookup raises KeyError for a movie the catalog lacks before
\* predict_rating runs.
RECURSIVE batch_loop(_, _)
batch_loop(acc, rows) ==
    IF rows = <<>> \/ acc.status # "ok" THEN acc
    ELSE IF Head(rows)[2] \notin DOMAIN movie_dict
    THEN [acc EXCEPT !.status = "KeyError"]
    ELSE batch_loop(batch_step(acc, Head(rows),
                               predict_rating(acc.sims, Head(rows)[1],
                                              Head(rows)[2])),
                    Tail(rows))

\* The end of predict_ratings: print(type(tuple_list[0])), which raises
\* IndexError on an empty list, then the return of the list.  A call that
\* raised returns no list.
batch_return(acc) ==
    IF acc.status # "ok"
    THEN [sims |-> acc.sims, status |-> acc.status, value |-> <<>>]
    ELSE IF acc.tuple_list = <<>>
    THEN [sims |-> acc.sims, status |-> "IndexError", value |-> <<>>]
    ELSE [sims |-> acc.sims, status |-> "ok", value |-> acc.tuple_list]

\* Movie_Recommendations.predict_ratings on the caches sims, for a test file
\* that holds rows.
predict_ratings(sims, rows) ==
    batch_return(batch_loop([sims |-> sims, status |-> "ok",
                             tuple_list |-> <<>>], rows))

\* A call predict_ratings(file) whose file holds rows.
PredictRatings(rows) ==
    /\ phase = "ready"
    /\ LET r == predict_ratings(similarities, rows)
       IN /\ similarities' = r.sims
          /\ last' = [op |-> "predict_ratings", rows |-> rows,
                      status |-> r.status, value |-> r.value]
    /\ UNCHANGED <<phase, nrecords, movie_users, user_dict>>

\* The rows a test file may hold, and the files of at most MaxQueries rows.
QueryRows ==
    {<<u, m, a>> : u \in {1, 999}, m \in {1, 2, 999}, a \in ActualValues}
RECURSIVE SeqsUpTo(_, _)
SeqsUpTo(S, n) ==
    IF n = 0 THEN {<<>>}
    ELSE LET shorter == SeqsUpTo(S, n - 1)
         IN shorter \cup {Append(q, x) : q \in shorter, x \in S}
QueryFiles == SeqsUpTo(QueryRows, MaxQueries)

\* ------------------------------------------------------------ specifications
Load(limit) ==
    \/ \E u \in UserIds, m \in MovieIds, r \in RatingValues :
          LoadRating(limit, u, m, r)
    \/ \E u \in UserIds, m \in UnknownIds : LoadUnknownMovie(limit, u, m)
    \/ LoadDone

\* Every single call, with every id, known or not.  A movie is not asked for
\* its similarity to itself.
Next ==
    \/ Load(MaxRecords)
    \/ \E u \in UserIds \cup UnknownIds, m \in MovieIds \cup UnknownIds :
          PredictRating(u, m)
    \/ \E a \in MovieIds : \E b \in (MovieIds \cup UnknownIds) \ {a} :
          GetSimilarity(a, b)

Spec == Init /\ [][Next]_vars

\* Predictions of the ratings of one target movie, over larger stores.
TargetMovie == CHOOSE m \in MovieIds : \A x \in MovieIds : x <= m
NextFormula ==
    \/ Load(MaxFormulaRecords)
    \/ \E u \in UserIds : PredictRating(u, TargetMovie)

SpecFormula == Init /\ [][NextFormula]_vars

\* Batches of predictions.
NextBatch ==
    \/ Load(MaxBatchRecords)
    \/ \E rows \in QueryFiles : PredictRatings(rows)

SpecBatch == Init /\ [][NextBatch]_vars

\* ------------------------------------------------------------ properties
\* The pairs of distinct catalog movies.
Pairs == {<<a, b>> \in MovieIds \X MovieIds : a # b}
\* The pairs whose similarity is cached on the first movie.
Cached == {p \in Pairs : p[2] \in DOMAIN similarities[p[1]]}
\* User ids with no rating at all in the store.
NoRatings(u) == u \notin DOMAIN user_dict \/ DOMAIN user_dict[u] = {}
\* The similarity get_similarity hands back for (r, m) on the caches sims.
SimilarityOf(sims, r, m) ==
    IF m \in DOMAIN sims[r] THEN sims[r][m] ELSE compute_similarity(r, m)
\* The sum of f over the set S.
RECURSIVE SumOver(_, _)
SumOver(f, S) ==
    IF S = {} THEN Zero
    ELSE RAdd(f[MinOf(S)], SumOver(f, S \ {MinOf(S)}))

\* C1. Mirrored cache: for known movies A # B, A's cache holds B exactly when
\* B's cache holds A, and then with the same value; the value a successful
\* get_similarity(A, B) returned is the one both caches hold, which is what a
\* call in either direction returns.
C1_MirroredCache ==
    /\ \A p \in Pairs :
          /\ p[2] \in DOMAIN similarities[p[1]]
                <=> p[1] \in DOMAIN similarities[p[2]]
          /\ p \in Cached => similarities[p[1]][p[2]] = similarities[p[2]][p[1]]
    /\ (last.op = "get_similarity" /\ last.status = "ok") =>
          /\ <<last.self, last.other>> \in Cached
          /\ similarities[last.self][last.other] = last.value
          /\ similarities[last.other][last.self] = last.value

\* A get_similarity call answered from the cache with a negative similarity.
C1_Witness ==
    /\ last.op = "get_similarity" /\ last.status = "ok" /\ last.computed = 0
    /\ last.value[1] < 0
    /\ similarities[last.other][last.self] = last.value

\* C2. Memoization: no step removes or changes a cache entry, and a
\* get_similarity call for a pair stored on either side returns the stored
\* value, computes nothing and leaves every cache as it was.
C2_Memoization ==
    [][/\ \A p \in Cached :
             /\ p[2] \in DOMAIN similarities'[p[1]]
             /\ similarities'[p[1]][p[2]] = similarities[p[1]][p[2]]
       /\ \A p \in Pairs :
             (GetSimilarity(p[1], p[2])
                /\ (p \in Cached \/ <<p[2], p[1]>> \in Cached))
             => /\ last'.status = "ok"
                /\ last'.computed = 0
                /\ last'.value = similarities[p[2]][p[1]]
                /\ similarities' = similarities]_vars

\* A get_similarity call answered from the cache when two pairs are stored.
C2_Witness ==
    /\ last.op = "get_similarity" /\ last.status = "ok" /\ last.computed = 0
    /\ Cardinality(Cached) >= 4

\* C3. Pass-through: predict_rating(u, m) for a rating the matrix holds returns
\* that rating, calls neither get_similarity nor compute_similarity and leaves
\* every cache as it was.
C3_PassThrough ==
    [][\A u \in UserIds, m \in MovieIds :
          (PredictRating(u, m) /\ u \in DOMAIN user_dict
             /\ m \in DOMAIN user_dict[u])
          => /\ last'.status = "ok"
             /\ last'.value = user_dict[u][m]
             /\ last'.calls = 0
             /\ last'.computed = 0
             /\ similarities' = similarities]_vars

\* A pass-through answered while a cache holds entries.
C3_Witness ==
    /\ last.op = "predict_rating" /\ last.status = "ok" /\ last.calls = 0
    /\ last.user_id \in DOMAIN user_dict
    /\ last.movie_id \in DOMAIN user_dict[last.user_id]
    /\ last.value = user_dict[last.user_id][last.movie_id]
    /\ Cached # {}

\* C4 as stated. Zero-evidence fallback: predict_rating for a user with no
\* ratings at all and a known movie returns 2.5 and does not fail.
C4_Original ==
    (last.op = "predict_rating" /\ last.movie_id \in MovieIds
       /\ NoRatings(last.user_id))
    => (last.status = "ok" /\ last.value = Fallback)

\* C4 amended. Every user of user_dict has at least one rating, so a user with
\* no ratings at all is not in user_dict, and predict_rating for such a user
\* raises BadInputError and returns nothing, whatever the movie.
C4_NoRatingsRejected ==
    /\ \A u \in DOMAIN user_dict : DOMAIN user_dict[u] # {}
    /\ (last.op = "predict_rating" /\ NoRatings(last.user_id))
       => (last.status = "BadInputError" /\ last.value = None)

\* predict_rating was called for a known movie and a user id with no ratings.
C4_Witness ==
    /\ last.op = "predict_rating"
    /\ last.movie_id \in MovieIds
    /\ last.user_id \in UserIds
    /\ NoRatings(last.user_id)
    /\ last.status = "BadInputError"

\* C5. Unknown id in similarity: get_similarity with an other_movie_id the
\* catalog lacks fails with BadInputError, raised to the caller.
C5_UnknownRaises ==
    (last.op = "get_similarity" /\ last.other \notin DOMAIN movie_dict)
    => last.status = "BadInputError"

\* C6. Unknown id in prediction: predict_rating with a user missing from
\* user_dict or a movie missing from movie_dict raises BadInputError before any
\* similarity call, and changes neither the store nor any cache.
C6_UnknownIdRejected ==
    [][\A u \in UserIds \cup UnknownIds, m \in MovieIds \cup UnknownIds :
          (PredictRating(u, m)
             /\ (u \notin DOMAIN user_dict \/ m \notin DOMAIN movie_dict))
          => /\ last'.status = "BadInputError"
             /\ last'.calls = 0
             /\ last'.computed = 0
             /\ UNCHANGED <<similarities, user_dict, movie_users>>]_vars

\* A known user asked for an unknown movie while a cache holds entries.
C6_Witness ==
    /\ last.op = "predict_rating" /\ last.status = "BadInputError"
    /\ last.user_id \in DOMAIN user_dict
    /\ last.movie_id \notin DOMAIN movie_dict
    /\ Cached # {}

\* C7. Lockstep: user u is in movie m's users list exactly when user_dict[u]
\* holds an entry for m, during and after the load and after any call.
C7_Lockstep ==
    \A u \in UserIds \cup UnknownIds, m \in MovieIds :
       InList(u, movie_users[m])
          <=> (u \in DOMAIN user_dict /\ m \in DOMAIN user_dict[u])

\* A store loaded from a file that repeats a (user, movie) pair, after a
\* prediction that computed a similarity.
C7_Witness ==
    /\ phase = "ready"
    /\ \E m \in MovieIds :
          /\ Len(movie_users[m]) >= 2
          /\ movie_users[m][1] = movie_users[m][2]
    /\ last.op = "predict_rating" /\ last.computed > 0

\* C8. Batch shape and order: for a test file of any length, empty included,
\* whose ids are all known, predict_ratings returns one tuple (user id, title,
\* predict_rating(user id, movie id), actual rating) per row, in file order.
C8_BatchShape ==
    (last.op = "predict_ratings"
       /\ \A i \in 1..Len(last.rows) :
             /\ last.rows[i][1] \in DOMAIN user_dict
             /\ last.rows[i][2] \in DOMAIN movie_dict)
    => /\ last.status = "ok"
       /\ Len(last.value) = Len(last.rows)
       /\ \A i \in 1..Len(last.rows) :
             last.value[i] =
                <<last.rows[i][1], movie_dict[last.rows[i][2]].title,
                  predict_rating(similarities, last.rows[i][1],
                                 last.rows[i][2]).value,
                  last.rows[i][3]>>

\* C9. Prediction formula: for a known user u and a known movie m that u has
\* not rated, predict_rating(u, m) calls get_similarity once per movie r that u
\* rated, m not being one of them, and returns 2.5 when the similarities
\* similarity(r, m) sum to zero and otherwise the sum of similarity(r, m) *
\* rating(u, r) divided by the sum of similarity(r, m); no similarity is left
\* out and the division is by a non-zero total.
C9_Formula ==
    [][\A u \in UserIds, m \in MovieIds :
          (PredictRating(u, m) /\ u \in DOMAIN user_dict
             /\ m \notin DOMAIN user_dict[u])
          => LET rated == DOMAIN user_dict[u]
                 sim == [r \in rated |-> SimilarityOf(similarities, r, m)]
                 weighted == [r \in rated |-> RMul(sim[r], user_dict[u][r])]
                 weightTotal == SumOver(sim, rated)
                 weightedSum == SumOver(weighted, rated)
             IN /\ m \notin rated
                /\ last'.status = "ok"
                /\ last'.calls = Cardinality(rated)
                /\ last'.value[2] > 0
                /\ last'.value = IF weightTotal = Zero THEN Fallback
                                 ELSE RDiv(weightedSum, weightTotal)]_vars

\* A prediction over two rated movies whose similarities, 1 and -1, cancel.
C9_Witness ==
    /\ last.op = "predict_rating" /\ last.status = "ok"
    /\ last.calls = 2
    /\ last.value = Fallback
    /\ \E r \in MovieIds :
          /\ last.movie_id \in DOMAIN similarities[r]
          /\ r \in DOMAIN user_dict[last.user_id]
          /\ similarities[r][last.movie_id][1] < 0

\* C10. Order-independence: in every loaded store, records repeated or not,
\* compute_similarity from A towards B equals compute_similarity from B towards
\* A for all known movies A # B.
C10_Symmetric ==
    phase = "ready"
    => \A p \in Pairs :
          compute_similarity(p[1], p[2]) = compute_similarity(p[2], p[1])
====
